---------------------------- MODULE Spec2Model ----------------------------
(***************************************************************************)
(* compiler.h: one header that hides the differences between 8051          *)
(* compilers in declaring special function registers.  The header is a     *)
(* chain of preprocessor conditionals; the model is the C preprocessor     *)
(* working through the header's lines (69..229) in a translation unit      *)
(* whose predefined symbols are given, followed by invocations of the      *)
(* macros the header has defined.                                          *)
(*                                                                         *)
(* A replacement list is a sequence of preprocessing tokens, written as    *)
(* strings exactly as they stand in the header (comments are white space). *)
(***************************************************************************)
EXTENDS Integers, Sequences, FiniteSets, TLC

\* How many times the translation unit includes compiler.h.
MaxIncludes == 2

\* First and last line of the header that hold directives.
FirstLine == 69
LastLine == 229

\* The version the Tasking branch compares _CC51 with (#if _CC51 > 71).
TaskingSfr16Version == 71

-----------------------------------------------------------------------------
(* Replacement lists, dialect by dialect.                                   *)

\* SDCC, lines 76..87
SDCC_VECT == <<"num">>
SDCC_SBIT_nobit == <<"__sbit", "__at", "(", "addr", ")", "name">>
SDCC_SBIT == <<"__sbit", "__at", "(", "addr", "+", "bit", ")", "name">>
SDCC_SFR == <<"__sfr", "__at", "(", "addr", ")", "name">>
SDCC_SFRBIT == <<>>
SDCC_SFRX ==
  <<"__xdata", "volatile", "unsigned", "char", "__at", "(", "addr", ")", "name">>
SDCC_SFR16_swapped ==
  <<"__sfr16", "__at", "(", "(", "addr", "<<", "8", ")", "|",
    "(", "addr", "+", "1U", ")", ")", "name">>
SDCC_SFR16 ==
  <<"__sfr16", "__at", "(", "(", "(", "addr", "+", "1U", ")", "<<", "8", ")",
    "|", "addr", ")", "name">>
SDCC_SFR16E == <<"__sfr16", "__at", "(", "fulladdr", ")", "name">>
SDCC_SFR32 ==
  <<"__sfr32", "__at", "(",
    "(", "(", "addr", "+", "3UL", ")", "<<", "24", ")", "|",
    "(", "(", "addr", "+", "2UL", ")", "<<", "16", ")", "|",
    "(", "(", "addr", "+", "1UL", ")", "<<", "8", ")", "|",
    "addr", ")", "name">>
SDCC_SFR32E == <<"__sfr32", "__at", "(", "fulladdr", ")", "name">>
SDCC_ASM == <<"__VA_ARGS__">>
SDCC_asm_begin == <<"__asm">>
SDCC_asm_end == <<"__endasm">>

\* Keil C51, lines 93..104
Keil_VECT == <<"num">>
Keil_SBIT == <<"sbit", "name", "=", "addr", "^", "bit">>
Keil_SFR == <<"sfr", "name", "=", "addr">>
Keil_SFRBIT == <<>>
Keil_SFRX == <<"volatile", "unsigned", "char", "xdata", "name", "_at_", "addr">>
Keil_SFR16 == <<"sfr16", "name", "=", "addr">>
Keil_SFR16E == <<>>
Keil_SFR32 == <<>>
Keil_SFR32E == <<>>
Keil_ASM == <<"__VA_ARGS__">>
Keil_asm_begin == <<"__asm", "{">>
Keil_asm_end == <<"}">>

\* Raisonance, lines 110..118
Raisonance_VECT == <<"num">>
Raisonance_SBIT == <<"at", "(", "addr", "+", "bit", ")", "sbit", "name">>
Raisonance_SFR == <<"sfr", "at", "addr", "name">>
Raisonance_SFRBIT == <<>>
Raisonance_SFRX == <<"xdata", "at", "addr", "volatile", "unsigned", "char", "name">>
Raisonance_SFR16 == <<"sfr16", "at", "addr", "name">>
Raisonance_SFR16E == <<>>
Raisonance_SFR32 == <<>>
Raisonance_SFR32E == <<>>

\* IAR 8051, lines 124..150
IAR_SFRBIT_IN_USE == <<>>
IAR_VECT == <<"addr">>
IAR_SBIT == <<>>
IAR_SFR ==
  <<"__sfr", "__no_init", "volatile", "unsigned", "char", "name", "@", "addr">>
IAR_SFRBIT ==
  <<"__sfr", "__no_init", "volatile", "union", "{",
    "unsigned", "char", "name", ";",
    "struct", "{",
    "unsigned", "char", "bit0", ":", "1", ";",
    "unsigned", "char", "bit1", ":", "1", ";",
    "unsigned", "char", "bit2", ":", "1", ";",
    "unsigned", "char", "bit3", ":", "1", ";",
    "unsigned", "char", "bit4", ":", "1", ";",
    "unsigned", "char", "bit5", ":", "1", ";",
    "unsigned", "char", "bit6", ":", "1", ";",
    "unsigned", "char", "bit7", ":", "1", ";",
    "}", ";",
    "}", "@", "addr", ";">>
IAR_SFRX ==
  <<"__xdata", "__no_init", "volatile", "unsigned", "char", "name", "@", "addr">>
IAR_SFR16 ==
  <<"__sfr", "__no_init", "volatile", "unsigned", "int", "name", "@", "addr">>
IAR_SFR16E == <<>>
IAR_SFR32 ==
  <<"__sfr", "__no_init", "volatile", "unsigned", "long", "name", "@", "addr">>
IAR_SFR32E == <<>>
IAR_ASM == <<"asm", "(", "#", "__VA_ARGS__", ")", ";">>
IAR_asm_begin == <<>>
IAR_asm_end == <<>>

\* Tasking / Altium, lines 156..168
Tasking_VECT == <<"num">>
Tasking_SBIT == <<"_sfrbit", "name", "_at", "(", "addr", "+", "bit", ")">>
Tasking_SFR == <<"_sfrbyte", "name", "_at", "(", "addr", ")">>
Tasking_SFRBIT == <<>>
Tasking_SFRX ==
  <<"_xdat", "volatile", "unsigned", "char", "name", "_at", "(", "addr", ")">>
Tasking_SFR16_new == <<"_sfrword", "_little", "name", "_at", "(", "addr", ")">>
Tasking_SFR16_old == <<>>
Tasking_SFR16E == <<>>
Tasking_SFR32 == <<>>
Tasking_SFR32E == <<>>

\* Hi-Tech 8051, lines 174..182
HiTech_VECT == <<"addr">>
HiTech_SBIT == <<"volatile", "bit", "name", "@", "(", "addr", "+", "bit", ")">>
HiTech_SFR == <<"volatile", "unsigned", "char", "name", "@", "addr">>
HiTech_SFRBIT == <<>>
HiTech_SFRX == <<"volatile", "far", "unsigned", "char", "name", "@", "addr">>
HiTech_SFR16 == <<>>
HiTech_SFR16E == <<>>
HiTech_SFR32 == <<>>
HiTech_SFR32E == <<>>

\* Crossware, lines 188..196
Crossware_VECT == <<"num">>
Crossware_SBIT == <<"_sfrbit", "name", "=", "(", "addr", "+", "bit", ")">>
Crossware_SFR == <<"_sfr", "name", "=", "addr">>
Crossware_SFRBIT == <<>>
Crossware_SFRX ==
  <<"volatile", "unsigned", "char", "_xdata", "name", "_at", "addr">>
Crossware_SFR16 == <<"_sfrword", "name", "=", "addr">>
Crossware_SFR16E == <<>>
Crossware_SFR32 == <<>>
Crossware_SFR32E == <<>>

\* Wickenhaeuser, lines 202..210
Wickenhaeuser_VECT == <<"addr">>
Wickenhaeuser_SBIT ==
  <<"unsigned", "char", "bit", "name", "@", "(", "addr", "+", "bit", ")">>
Wickenhaeuser_SFR == <<"near", "unsigned", "char", "name", "@", "addr">>
Wickenhaeuser_SFRBIT == <<>>
Wickenhaeuser_SFRX == <<"xdata", "volatile", "unsigned", "char", "name", "@", "addr">>
Wickenhaeuser_SFR16 == <<>>
Wickenhaeuser_SFR16E == <<>>
Wickenhaeuser_SFR32 == <<>>
Wickenhaeuser_SFR32E == <<>>

\* default (unrecognized compiler), lines 217..225
Default_VECT == <<"num">>
Default_SBIT == <<"volatile", "bool", "name">>
Default_SFR == <<"volatile", "unsigned", "char", "name">>
Default_SFRBIT == <<"name">>
Default_SFRX == <<"volatile", "unsigned", "char", "name">>
Default_SFR16_placed == <<"volatile", "unsigned", "short", "name", "@", "addr">>
Default_SFR16 == <<"volatile", "unsigned", "short", "name">>
Default_SFR16E == <<"volatile", "unsigned", "short", "name">>
Default_SFR32 == <<"volatile", "unsigned", "long", "name">>
Default_SFR32E == <<"volatile", "unsigned", "long", "name">>

-----------------------------------------------------------------------------
(* The header's lines.                                                      *)

\* The symbols by which the compilers identify themselves.
VendorSyms ==
  {"SDCC", "__SDCC", "__CX51__", "__RC51__", "__IAR_SYSTEMS_ICC__", "_CC51",
   "HI_TECH_C", "_XC51_VER", "__UC__"}

\* The macros of the interface.
Interface ==
  {"VECT", "SBIT", "SFR", "SFRBIT", "SFRX", "SFR16", "SFR16E", "SFR32",
   "SFR32E", "ASM", "__asm_begin", "__asm_end"}

\* Every macro name the header defines.
HeaderMacros == Interface \cup {"COMPILER_H", "__SFRBIT_IN_USE__"}

\* Parameter lists.
P_VECT == <<"num", "addr">>
P_SBIT == <<"name", "addr", "bit">>
P_ADDR == <<"name", "addr">>
P_FULL == <<"name", "fulladdr">>
P_SFRBIT ==
  <<"name", "addr", "bit7", "bit6", "bit5", "bit4", "bit3", "bit2", "bit1", "bit0">>
P_VARIADIC == <<"...">>

\* Directives.  A condition is "defined": one of syms is defined (#if defined
\* A || defined B, #elif defined A); "ndef": sym is not defined (#ifndef);
\* "value": the symbol's value is not 0 (#elif A); "gt": its value exceeds n.
CondDefined(syms) == [k |-> "defined", syms |-> syms, n |-> 0]
CondNdef(sym) == [k |-> "ndef", syms |-> {sym}, n |-> 0]
CondValue(sym) == [k |-> "value", syms |-> {sym}, n |-> 0]
CondGt(sym, n) == [k |-> "gt", syms |-> {sym}, n |-> n]

If(cond, dialect) == [op |-> "if", cond |-> cond, dialect |-> dialect]
Elif(cond, dialect) == [op |-> "elif", cond |-> cond, dialect |-> dialect]
Else(dialect) == [op |-> "else", dialect |-> dialect]
Endif == [op |-> "endif"]
Warning == [op |-> "warning"]
Text == [op |-> "text"]
DefineFn(name, params, body) ==
  [op |-> "define", name |-> name, kind |-> "function", params |-> params,
   body |-> body]
DefineObj(name, body) ==
  [op |-> "define", name |-> name, kind |-> "object", params |-> <<>>,
   body |-> body]

\* The include guard and the conditions of the dialect chain, in the order
\* of the header.  The IAR branch (#elif __IAR_SYSTEMS_ICC__) tests the
\* symbol's value, the others whether their symbols are defined.
GuardCond_other == CondNdef("__SFRBIT_IN_USE__")
GuardCond == CondNdef("COMPILER_H")
SDCCCond == CondDefined({"SDCC", "__SDCC"})
KeilCond_wrong == CondDefined({"__CX51__", "__RC51__"})
KeilCond == CondDefined({"__CX51__"})
RaisonanceCond == CondDefined({"__RC51__"})
IARCond == CondValue("__IAR_SYSTEMS_ICC__")
TaskingCond == CondDefined({"_CC51"})
HiTechCond == CondDefined({"HI_TECH_C"})
CrosswareCond == CondDefined({"_XC51_VER"})
WickenhaeuserCond == CondDefined({"__UC__"})

\* Line n of compiler.h, n in FirstLine..LastLine.  The lines of a comment,
\* blank lines and the continuation lines of a definition are Text.
Line(n) ==
  CASE n = 69 -> If(GuardCond, "")
    [] n = 70 -> DefineObj("COMPILER_H", <<>>)
    [] n = 75 -> If(SDCCCond, "SDCC")
    [] n = 76 -> DefineFn("VECT", P_VECT, SDCC_VECT)
    [] n = 77 -> DefineFn("SBIT", P_SBIT, SDCC_SBIT)
    [] n = 78 -> DefineFn("SFR", P_ADDR, SDCC_SFR)
    [] n = 79 -> DefineFn("SFRBIT", P_SFRBIT, SDCC_SFRBIT)
    [] n = 80 -> DefineFn("SFRX", P_ADDR, SDCC_SFRX)
    [] n = 81 -> DefineFn("SFR16", P_ADDR, SDCC_SFR16)
    [] n = 82 -> DefineFn("SFR16E", P_FULL, SDCC_SFR16E)
    [] n = 83 -> DefineFn("SFR32", P_ADDR, SDCC_SFR32)
    [] n = 84 -> DefineFn("SFR32E", P_FULL, SDCC_SFR32E)
    [] n = 85 -> DefineFn("ASM", P_VARIADIC, SDCC_ASM)
    [] n = 86 -> DefineObj("__asm_begin", SDCC_asm_begin)
    [] n = 87 -> DefineObj("__asm_end", SDCC_asm_end)
    [] n = 92 -> Elif(KeilCond, "Keil")
    [] n = 93 -> DefineFn("VECT", P_VECT, Keil_VECT)
    [] n = 94 -> DefineFn("SBIT", P_SBIT, Keil_SBIT)
    [] n = 95 -> DefineFn("SFR", P_ADDR, Keil_SFR)
    [] n = 96 -> DefineFn("SFRBIT", P_SFRBIT, Keil_SFRBIT)
    [] n = 97 -> DefineFn("SFRX", P_ADDR, Keil_SFRX)
    [] n = 98 -> DefineFn("SFR16", P_ADDR, Keil_SFR16)
    [] n = 99 -> DefineFn("SFR16E", P_FULL, Keil_SFR16E)
    [] n = 100 -> DefineFn("SFR32", P_FULL, Keil_SFR32)
    [] n = 101 -> DefineFn("SFR32E", P_FULL, Keil_SFR32E)
    [] n = 102 -> DefineFn("ASM", P_VARIADIC, Keil_ASM)
    [] n = 103 -> DefineObj("__asm_begin", Keil_asm_begin)
    [] n = 104 -> DefineObj("__asm_end", Keil_asm_end)
    [] n = 109 -> Elif(RaisonanceCond, "Raisonance")
    [] n = 110 -> DefineFn("VECT", P_VECT, Raisonance_VECT)
    [] n = 111 -> DefineFn("SBIT", P_SBIT, Raisonance_SBIT)
    [] n = 112 -> DefineFn("SFR", P_ADDR, Raisonance_SFR)
    [] n = 113 -> DefineFn("SFRBIT", P_SFRBIT, Raisonance_SFRBIT)
    [] n = 114 -> DefineFn("SFRX", P_ADDR, Raisonance_SFRX)
    [] n = 115 -> DefineFn("SFR16", P_ADDR, Raisonance_SFR16)
    [] n = 116 -> DefineFn("SFR16E", P_FULL, Raisonance_SFR16E)
    [] n = 117 -> DefineFn("SFR32", P_FULL, Raisonance_SFR32)
    [] n = 118 -> DefineFn("SFR32E", P_FULL, Raisonance_SFR32E)
    [] n = 123 -> Elif(IARCond, "IAR")
    [] n = 124 -> DefineObj("__SFRBIT_IN_USE__", IAR_SFRBIT_IN_USE)
    [] n = 125 -> DefineFn("VECT", P_VECT, IAR_VECT)
    [] n = 126 -> DefineFn("SBIT", P_SBIT, IAR_SBIT)
    [] n = 127 -> DefineFn("SFR", P_ADDR, IAR_SFR)
    [] n = 128 -> DefineFn("SFRBIT", P_SFRBIT, IAR_SFRBIT)
    [] n = 143 -> DefineFn("SFRX", P_ADDR, IAR_SFRX)
    [] n = 144 -> DefineFn("SFR16", P_ADDR, IAR_SFR16)
    [] n = 145 -> DefineFn("SFR16E", P_FULL, IAR_SFR16E)
    [] n = 146 -> DefineFn("SFR32", P_FULL, IAR_SFR32)
    [] n = 147 -> DefineFn("SFR32E", P_FULL, IAR_SFR32E)
    [] n = 148 -> DefineFn("ASM", P_VARIADIC, IAR_ASM)
    [] n = 149 -> DefineObj("__asm_begin", IAR_asm_begin)
    [] n = 150 -> DefineObj("__asm_end", IAR_asm_end)
    [] n = 155 -> Elif(TaskingCond, "Tasking")
    [] n = 156 -> DefineFn("VECT", P_VECT, Tasking_VECT)
    [] n = 157 -> DefineFn("SBIT", P_SBIT, Tasking_SBIT)
    [] n = 158 -> DefineFn("SFR", P_ADDR, Tasking_SFR)
    [] n = 159 -> DefineFn("SFRBIT", P_SFRBIT, Tasking_SFRBIT)
    [] n = 160 -> DefineFn("SFRX", P_ADDR, Tasking_SFRX)
    [] n = 161 -> If(CondGt("_CC51", TaskingSfr16Version), "")
    [] n = 162 -> DefineFn("SFR16", P_ADDR, Tasking_SFR16_new)
    [] n = 163 -> Else("")
    [] n = 164 -> DefineFn("SFR16", P_ADDR, Tasking_SFR16_old)
    [] n = 165 -> Endif
    [] n = 166 -> DefineFn("SFR16E", P_FULL, Tasking_SFR16E)
    [] n = 167 -> DefineFn("SFR32", P_FULL, Tasking_SFR32)
    [] n = 168 -> DefineFn("SFR32E", P_FULL, Tasking_SFR32E)
    [] n = 173 -> Elif(HiTechCond, "HiTech")
    [] n = 174 -> DefineFn("VECT", P_VECT, HiTech_VECT)
    [] n = 175 -> DefineFn("SBIT", P_SBIT, HiTech_SBIT)
    [] n = 176 -> DefineFn("SFR", P_ADDR, HiTech_SFR)
    [] n = 177 -> DefineFn("SFRBIT", P_SFRBIT, HiTech_SFRBIT)
    [] n = 178 -> DefineFn("SFRX", P_ADDR, HiTech_SFRX)
    [] n = 179 -> DefineFn("SFR16", P_ADDR, HiTech_SFR16)
    [] n = 180 -> DefineFn("SFR16E", P_FULL, HiTech_SFR16E)
    [] n = 181 -> DefineFn("SFR32", P_FULL, HiTech_SFR32)
    [] n = 182 -> DefineFn("SFR32E", P_FULL, HiTech_SFR32E)
    [] n = 187 -> Elif(CrosswareCond, "Crossware")
    [] n = 188 -> DefineFn("VECT", P_VECT, Crossware_VECT)
    [] n = 189 -> DefineFn("SBIT", P_SBIT, Crossware_SBIT)
    [] n = 190 -> DefineFn("SFR", P_ADDR, Crossware_SFR)
    [] n = 191 -> DefineFn("SFRBIT", P_SFRBIT, Crossware_SFRBIT)
    [] n = 192 -> DefineFn("SFRX", P_ADDR, Crossware_SFRX)
    [] n = 193 -> DefineFn("SFR16", P_ADDR, Crossware_SFR16)
    [] n = 194 -> DefineFn("SFR16E", P_FULL, Crossware_SFR16E)
    [] n = 195 -> DefineFn("SFR32", P_FULL, Crossware_SFR32)
    [] n = 196 -> DefineFn("SFR32E", P_FULL, Crossware_SFR32E)
    [] n = 201 -> Elif(WickenhaeuserCond, "Wickenhaeuser")
    [] n = 202 -> DefineFn("VECT", P_VECT, Wickenhaeuser_VECT)
    [] n = 203 -> DefineFn("SBIT", P_SBIT, Wickenhaeuser_SBIT)
    [] n = 204 -> DefineFn("SFR", P_ADDR, Wickenhaeuser_SFR)
    [] n = 205 -> DefineFn("SFRBIT", P_SFRBIT, Wickenhaeuser_SFRBIT)
    [] n = 206 -> DefineFn("SFRX", P_ADDR, Wickenhaeuser_SFRX)
    [] n = 207 -> DefineFn("SFR16", P_ADDR, Wickenhaeuser_SFR16)
    [] n = 208 -> DefineFn("SFR16E", P_FULL, Wickenhaeuser_SFR16E)
    [] n = 209 -> DefineFn("SFR32", P_FULL, Wickenhaeuser_SFR32)
    [] n = 210 -> DefineFn("SFR32E", P_FULL, Wickenhaeuser_SFR32E)
    [] n = 215 -> Else("Default")
    [] n = 216 -> Warning
    [] n = 217 -> DefineFn("VECT", P_VECT, Default_VECT)
    [] n = 218 -> DefineFn("SBIT", P_SBIT, Default_SBIT)
    [] n = 219 -> DefineFn("SFR", P_ADDR, Default_SFR)
    [] n = 220 -> DefineFn("SFRBIT", P_SFRBIT, Default_SFRBIT)
    [] n = 221 -> DefineFn("SFRX", P_ADDR, Default_SFRX)
    [] n = 222 -> DefineFn("SFR16", P_ADDR, Default_SFR16)
    [] n = 223 -> DefineFn("SFR16E", P_FULL, Default_SFR16E)
    [] n = 224 -> DefineFn("SFR32", P_FULL, Default_SFR32)
    [] n = 225 -> DefineFn("SFR32E", P_FULL, Default_SFR32E)
    [] n = 227 -> Endif
    [] n = 229 -> Endif
    [] OTHER -> Text

-----------------------------------------------------------------------------
(* The preprocessor working through the header.                             *)

VARIABLES
  env,        \* the predefined symbols: symbol -> value, Undef when not defined
  macros,     \* macro name -> the line whose #define is in force, 0 when none
  pc,         \* the header line being read, 0 outside the header
  ifs,        \* the open conditionals, innermost last
  selected,   \* the dialects whose group has been entered in this unit
  diags,      \* the lines of the diagnostics emitted, in order
  includes,   \* how many times the unit has included the header
  call,       \* the macro invocation on the unit's current line
  expansion   \* what that invocation expanded to

vars == <<env, macros, pc, ifs, selected, diags, includes, call, expansion>>

\* A predefined symbol that is not defined.
Undef == -1

\* The values a compiler gives its identity symbol: 1 for the symbols only
\* tested with defined; a version, possibly 0, for __IAR_SYSTEMS_ICC__; a
\* version on either side of the one line 161 tests for _CC51.
SymValues(s) ==
  CASE s = "__IAR_SYSTEMS_ICC__" -> {0, 8}
    [] s = "_CC51" -> {TaskingSfr16Version, TaskingSfr16Version + 1}
    [] OTHER -> {1}

\* Every set of predefined identity symbols, with their values.
Envs ==
  {e \in [VendorSyms -> {Undef, 0, 1, 8, TaskingSfr16Version,
                         TaskingSfr16Version + 1}] :
     \A s \in VendorSyms : e[s] = Undef \/ e[s] \in SymValues(s)}

\* The sets a real toolchain predefines: the symbols of at most one vendor
\* (SDCC and __SDCC are the same vendor's).
UseEnvs ==
  {e \in Envs : \A s, t \in VendorSyms :
     e[s] # Undef /\ e[t] # Undef => s = t \/ {s, t} = {"SDCC", "__SDCC"}}

NoCall == [macro |-> "", args |-> <<>>]

IsDefined(s, e, m) == IF s \in VendorSyms THEN e[s] # Undef ELSE m[s] # 0

\* In #if an identifier that is not a macro evaluates to 0.
Value(s, e) == IF e[s] = Undef THEN 0 ELSE e[s]

CondHolds(c, e, m) ==
  CASE c.k = "defined" -> \E s \in c.syms : IsDefined(s, e, m)
    [] c.k = "ndef" -> \A s \in c.syms : ~IsDefined(s, e, m)
    [] c.k = "value" -> \E s \in c.syms : Value(s, e) # 0
    [] c.k = "gt" -> \E s \in c.syms : Value(s, e) > c.n

\* Whether the lines being read are processed or skipped.
Active(stack) == stack = <<>> \/ stack[Len(stack)].active

InHeader == pc \in FirstLine..LastLine

\* #elif enters its group when the enclosing group is processed, no earlier
\* group of the chain was entered and its condition holds.
ElifTaken_always(top, holds) == top.outer /\ holds
ElifTaken(top, holds) == top.outer /\ ~top.taken /\ holds

\* #else enters its group when no earlier group of the chain was entered.
ElseTaken(top) == top.outer /\ ~top.taken

\* #warning adds a diagnostic and processing goes on.
Diagnose_silent(d, n) == d
Diagnose(d, n) == Append(d, n)

Enter(sel, dialect, taken) ==
  IF taken /\ dialect # "" THEN sel \cup {dialect} ELSE sel

Init ==
  /\ env \in Envs
  /\ macros = [m \in HeaderMacros |-> 0]
  /\ pc = 0
  /\ ifs = <<>>
  /\ selected = {}
  /\ diags = <<>>
  /\ includes = 0
  /\ call = NoCall
  /\ expansion = <<>>

\* #include <compiler.h> in the translation unit.
Include ==
  /\ pc = 0
  /\ call = NoCall
  /\ includes < MaxIncludes
  /\ pc' = FirstLine
  /\ includes' = includes + 1
  /\ UNCHANGED <<env, macros, ifs, selected, diags, call, expansion>>

\* #if, #ifndef
StepIf ==
  /\ InHeader
  /\ Line(pc).op = "if"
  /\ LET outer == Active(ifs)
         taken == outer /\ CondHolds(Line(pc).cond, env, macros)
     IN  /\ ifs' = Append(ifs, [outer |-> outer, taken |-> taken, active |-> taken])
         /\ selected' = Enter(selected, Line(pc).dialect, taken)
  /\ pc' = pc + 1
  /\ UNCHANGED <<env, macros, diags, includes, call, expansion>>

\* #elif
StepElif ==
  /\ InHeader
  /\ Line(pc).op = "elif"
  /\ LET top == ifs[Len(ifs)]
         taken == ElifTaken(top, CondHolds(Line(pc).cond, env, macros))
     IN  /\ ifs' = [ifs EXCEPT ![Len(ifs)] =
                      [outer |-> top.outer, taken |-> top.taken \/ taken,
                       active |-> taken]]
         /\ selected' = Enter(selected, Line(pc).dialect, taken)
  /\ pc' = pc + 1
  /\ UNCHANGED <<env, macros, diags, includes, call, expansion>>

\* #else
StepElse ==
  /\ InHeader
  /\ Line(pc).op = "else"
  /\ LET top == ifs[Len(ifs)]
         taken == ElseTaken(top)
     IN  /\ ifs' = [ifs EXCEPT ![Len(ifs)] =
                      [outer |-> top.outer, taken |-> TRUE, active |-> taken]]
         /\ selected' = Enter(selected, Line(pc).dialect, taken)
  /\ pc' = pc + 1
  /\ UNCHANGED <<env, macros, diags, includes, call, expansion>>

\* #endif
StepEndif ==
  /\ InHeader
  /\ Line(pc).op = "endif"
  /\ ifs' = SubSeq(ifs, 1, Len(ifs) - 1)
  /\ pc' = pc + 1
  /\ UNCHANGED <<env, macros, selected, diags, includes, call, expansion>>

\* #define, in a group that is processed
StepDefine ==
  /\ InHeader
  /\ Line(pc).op = "define"
  /\ macros' = IF Active(ifs) THEN [macros EXCEPT ![Line(pc).name] = pc]
               ELSE macros
  /\ pc' = pc + 1
  /\ UNCHANGED <<env, ifs, selected, diags, includes, call, expansion>>

\* #warning, in a group that is processed
StepWarning ==
  /\ InHeader
  /\ Line(pc).op = "warning"
  /\ diags' = IF Active(ifs) THEN Diagnose(diags, pc) ELSE diags
  /\ pc' = pc + 1
  /\ UNCHANGED <<env, macros, ifs, selected, includes, call, expansion>>

\* a line that holds no directive
StepText ==
  /\ InHeader
  /\ Line(pc).op = "text"
  /\ pc' = pc + 1
  /\ UNCHANGED <<env, macros, ifs, selected, diags, includes, call, expansion>>

\* the end of the header: back to the including file
EndOfFile ==
  /\ pc = LastLine + 1
  /\ pc' = 0
  /\ UNCHANGED <<env, macros, ifs, selected, diags, includes, call, expansion>>

Next ==
  \/ Include
  \/ StepIf
  \/ StepElif
  \/ StepElse
  \/ StepEndif
  \/ StepDefine
  \/ StepWarning
  \/ StepText
  \/ EndOfFile

Spec == Init /\ [][Next]_vars

-----------------------------------------------------------------------------
(* Macro invocations in the translation unit, after the header.             *)

\* A token of the unit's text: its spelling and, for a number, its width in
\* bytes (int is 2 bytes on the 8051, long 4) and its bytes, lowest first.
Tok(t) == [t |-> t, w |-> 0, b |-> <<>>]
Bytes(n) ==
  <<n % 256, (n \div 256) % 256, (n \div 65536) % 256, n \div 16777216>>
NumTok(w, n) == [t |-> "number", w |-> w, b |-> Bytes(n)]

\* The arguments the unit passes: every SFR byte address, every bit number
\* 0..7, the vector numbers 0..2 with their addresses 8 * n + 3.
Addrs == 128..255
RegName == Tok("REG")
BitNames ==
  <<Tok("REG_7"), Tok("REG_6"), Tok("REG_5"), Tok("REG_4"), Tok("REG_3"),
    Tok("REG_2"), Tok("REG_1"), Tok("REG_0")>>

Call(m, args) == [macro |-> m, args |-> args]

\* Each argument is a sequence of tokens.
Calls ==
  {Call("VECT", <<(<<NumTok(2, n)>>), (<<NumTok(2, 8 * n + 3)>>)>>) : n \in 0..2}
  \cup {Call("SBIT", <<(<<RegName>>), (<<NumTok(2, a)>>), (<<NumTok(2, k)>>)>>) :
          a \in Addrs, k \in 0..7}
  \cup {Call(m, <<(<<RegName>>), (<<NumTok(2, a)>>)>>) :
          m \in {"SFR", "SFR16", "SFR32"}, a \in Addrs}
  \cup {Call("SFRBIT", <<(<<RegName>>), (<<NumTok(2, a)>>)>>
                         \o [i \in 1..8 |-> <<BitNames[i]>>]) : a \in Addrs}
  \cup {Call("SFRX", <<(<<RegName>>), (<<NumTok(2, 58880)>>)>>)}
  \cup {Call("SFR16E", <<(<<RegName>>), (<<NumTok(2, 35978)>>)>>)}
  \cup {Call("SFR32E", <<(<<RegName>>), (<<[t |-> "number", w |-> 4, b |-> <<226, 227, 228, 229>>]>>)>>)}
  \cup {Call("ASM", <<(<<Tok("nop")>>)>>)}
  \cup {Call(m, <<>>) : m \in {"__asm_begin", "__asm_end"}}

\* Where the parameter t stands in the parameter list, 0 when it is none.
\* __VA_ARGS__ names the arguments of a variadic macro.
ParamIndex(t, params) ==
  IF params = P_VARIADIC
  THEN (IF t = "__VA_ARGS__" THEN 1 ELSE 0)
  ELSE IF \E k \in 1..Len(params) : params[k] = t
       THEN CHOOSE k \in 1..Len(params) : params[k] = t
       ELSE 0

\* # parameter: the argument's spelling as one string literal.
Stringify(arg) == Tok("\"" \o arg[1].t \o "\"")

\* The replacement list from token i on, each parameter replaced by its
\* argument, every occurrence of it, whatever the token stands for there.
RECURSIVE Subst(_, _, _, _)
Subst(body, i, params, args) ==
  IF i > Len(body) THEN <<>>
  ELSE IF body[i] = "#" /\ i < Len(body) /\ ParamIndex(body[i + 1], params) # 0
  THEN <<Stringify(args[ParamIndex(body[i + 1], params)])>>
         \o Subst(body, i + 2, params, args)
  ELSE IF ParamIndex(body[i], params) # 0
  THEN args[ParamIndex(body[i], params)] \o Subst(body, i + 1, params, args)
  ELSE <<Tok(body[i])>> \o Subst(body, i + 1, params, args)

\* The invocation as it stands in the text.
RECURSIVE ArgList(_, _)
ArgList(args, i) ==
  IF i > Len(args) THEN <<>>
  ELSE args[i] \o (IF i < Len(args) THEN <<Tok(",")>> ELSE <<>>)
         \o ArgList(args, i + 1)
Invocation(c) ==
  IF c.macro \in {"__asm_begin", "__asm_end"} THEN <<Tok(c.macro)>>
  ELSE <<Tok(c.macro), Tok("(")>> \o ArgList(c.args, 1) \o <<Tok(")")>>

\* What the preprocessor makes of the invocation: the replacement list of
\* the definition in force, or the text as it stands when the name is not a
\* macro.  No replacement list of the header names another macro of the
\* header, so rescanning replaces nothing more.
Expand(c, m) ==
  IF m[c.macro] = 0 THEN Invocation(c)
  ELSE LET d == Line(m[c.macro])
       IN  IF d.kind = "object" THEN [i \in 1..Len(d.body) |-> Tok(d.body[i])]
           ELSE Subst(d.body, 1, d.params, c.args)

\* A line of the unit that invokes a macro of the interface.
Invoke ==
  /\ pc = 0
  /\ includes >= 1
  /\ call = NoCall
  /\ \E c \in Calls :
       /\ call' = c
       /\ expansion' = Expand(c, macros)
  /\ UNCHANGED <<env, macros, pc, ifs, selected, diags, includes>>

\* The expanded line goes to the compiler; the unit's next line follows.
EndLine ==
  /\ call # NoCall
  /\ call' = NoCall
  /\ expansion' = <<>>
  /\ UNCHANGED <<env, macros, pc, ifs, selected, diags, includes>>

InitUse ==
  /\ env \in UseEnvs
  /\ macros = [m \in HeaderMacros |-> 0]
  /\ pc = 0
  /\ ifs = <<>>
  /\ selected = {}
  /\ diags = <<>>
  /\ includes = 0
  /\ call = NoCall
  /\ expansion = <<>>

NextUse ==
  \/ Include
  \/ StepIf
  \/ StepElif
  \/ StepElse
  \/ StepEndif
  \/ StepDefine
  \/ StepWarning
  \/ StepText
  \/ EndOfFile
  \/ Invoke
  \/ EndLine

SpecUse == InitUse /\ [][NextUse]_vars

-----------------------------------------------------------------------------
(* How a compiler reads the address in an expansion: the constant           *)
(* expression that follows the placement token (__at, =, at, @, _at, _at_), *)
(* evaluated in the unsigned arithmetic of its operands' widths.            *)

Placers == {"__at", "=", "at", "@", "_at", "_at_"}

\* The literals of the header's address expressions (lines 81 and 83).
IsLiteral(t) == t \in {"1U", "8", "16", "24", "1UL", "2UL", "3UL"}
LitVal(t) ==
  CASE t = "1U" -> [w |-> 2, b |-> Bytes(1)]
    [] t = "8" -> [w |-> 2, b |-> Bytes(8)]
    [] t = "16" -> [w |-> 2, b |-> Bytes(16)]
    [] t = "24" -> [w |-> 2, b |-> Bytes(24)]
    [] t = "1UL" -> [w |-> 4, b |-> Bytes(1)]
    [] t = "2UL" -> [w |-> 4, b |-> Bytes(2)]
    [] t = "3UL" -> [w |-> 4, b |-> Bytes(3)]

IsOperand(tok) ==
  tok.w > 0 \/ IsLiteral(tok.t) \/ tok.t \in {"(", ")", "+", "<<", "|", "^"}

Wider(x, y) == IF x.w >= y.w THEN x.w ELSE y.w

\* The bytes above the width are lost.
Trunc(w, b) == [i \in 1..4 |-> IF i <= w THEN b[i] ELSE 0]

RECURSIVE Carry(_, _, _)
Carry(x, y, i) ==
  IF i = 0 THEN 0 ELSE (x[i] + y[i] + Carry(x, y, i - 1)) \div 256
AddV(x, y) ==
  [w |-> Wider(x, y),
   b |-> Trunc(Wider(x, y),
               [i \in 1..4 |-> (x.b[i] + y.b[i] + Carry(x.b, y.b, i - 1)) % 256])]

\* One bit to the left.
Shl1(b) ==
  [i \in 1..4 |-> (2 * b[i] + (IF i > 1 THEN b[i - 1] \div 128 ELSE 0)) % 256]
RECURSIVE ShlB(_, _)
ShlB(b, k) == IF k = 0 THEN b ELSE ShlB(Shl1(b), k - 1)
ShlV(x, y) == [w |-> x.w, b |-> Trunc(x.w, ShlB(x.b, y.b[1]))]

RECURSIVE OrByte(_, _, _)
OrByte(p, q, k) ==
  IF k = 0 THEN 0
  ELSE (IF p % 2 = 1 \/ q % 2 = 1 THEN 1 ELSE 0)
         + 2 * OrByte(p \div 2, q \div 2, k - 1)
RECURSIVE XorByte(_, _, _)
XorByte(p, q, k) ==
  IF k = 0 THEN 0
  ELSE (IF p % 2 # q % 2 THEN 1 ELSE 0)
         + 2 * XorByte(p \div 2, q \div 2, k - 1)
OrV(x, y) ==
  [w |-> Wider(x, y), b |-> [i \in 1..4 |-> OrByte(x.b[i], y.b[i], 8)]]
XorV(x, y) ==
  [w |-> Wider(x, y), b |-> [i \in 1..4 |-> XorByte(x.b[i], y.b[i], 8)]]

\* The binary operators by precedence, loosest first: | ^ << +
OpAt(level) ==
  CASE level = 1 -> "|" [] level = 2 -> "^" [] level = 3 -> "<<" [] level = 4 -> "+"
Apply(level, x, y) ==
  CASE level = 1 -> OrV(x, y)
    [] level = 2 -> XorV(x, y)
    [] level = 3 -> ShlV(x, y)
    [] level = 4 -> AddV(x, y)

NoParse == [ok |-> FALSE, v |-> [w |-> 0, b |-> <<>>], i |-> 0]

RECURSIVE Parse(_, _, _)
RECURSIVE ParseTail(_, _, _)
ParsePrimary(ts, i) ==
  IF i > Len(ts) THEN NoParse
  ELSE IF ts[i].w > 0 THEN [ok |-> TRUE, v |-> [w |-> ts[i].w, b |-> ts[i].b], i |-> i + 1]
  ELSE IF IsLiteral(ts[i].t) THEN [ok |-> TRUE, v |-> LitVal(ts[i].t), i |-> i + 1]
  ELSE IF ts[i].t = "("
  THEN LET r == Parse(1, ts, i + 1)
       IN  IF r.ok /\ r.i <= Len(ts) /\ ts[r.i].t = ")"
           THEN [r EXCEPT !.i = r.i + 1] ELSE NoParse
  ELSE NoParse
Parse(level, ts, i) ==
  IF level = 5 THEN ParsePrimary(ts, i)
  ELSE ParseTail(level, ts, Parse(level + 1, ts, i))
ParseTail(level, ts, r) ==
  IF r.ok /\ r.i <= Len(ts) /\ ts[r.i].t = OpAt(level)
  THEN LET rhs == Parse(level + 1, ts, r.i + 1)
       IN  IF rhs.ok
           THEN ParseTail(level, ts,
                          [ok |-> TRUE, v |-> Apply(level, r.v, rhs.v), i |-> rhs.i])
           ELSE NoParse
  ELSE r

\* The operand tokens that follow the first placement token.
RECURSIVE OperandRun(_, _)
OperandRun(ts, i) ==
  IF i > Len(ts) \/ ~IsOperand(ts[i]) THEN <<>>
  ELSE <<ts[i]>> \o OperandRun(ts, i + 1)
AddressTokens(ts) ==
  IF \A i \in 1..Len(ts) : ts[i].t \notin Placers THEN <<>>
  ELSE LET p == CHOOSE i \in 1..Len(ts) :
                  ts[i].t \in Placers /\ \A j \in 1..(i - 1) : ts[j].t \notin Placers
       IN  OperandRun(ts, p + 1)

\* The address the expansion places its object at: its bytes, lowest first,
\* or <<>> when the expansion holds no address a compiler can evaluate.
Address(ts) ==
  LET r == Parse(1, AddressTokens(ts), 1)
  IN  IF r.ok /\ r.i = Len(AddressTokens(ts)) + 1 THEN r.v.b ELSE <<>>

\* The byte addresses an n-byte register is bound to, lowest byte first.
\* SDCC's __sfr16 and __sfr32 take one address per byte, packed into a
\* literal (0x8C8A: lsb at 0x8A, msb at 0x8C); the other compilers take the
\* address of the low byte, the bytes being adjacent, little-endian.
BoundBytes(dialect, n, b) ==
  IF b = <<>> THEN <<>>
  ELSE IF dialect = "SDCC" THEN [i \in 1..n |-> b[i]]
  ELSE IF b[2] # 0 \/ b[3] # 0 \/ b[4] # 0 THEN <<>>
  ELSE [i \in 1..n |-> b[1] + i - 1]

-----------------------------------------------------------------------------
(* The claims about the selection of the dialect.                           *)

Vendors ==
  {"SDCC", "Keil", "Raisonance", "IAR", "Tasking", "HiTech", "Crossware",
   "Wickenhaeuser"}

\* The order in which the vendors' identities are to be inspected.
VendorOrder ==
  <<"SDCC", "Keil", "Raisonance", "IAR", "Tasking", "HiTech", "Crossware",
    "Wickenhaeuser">>

\* Whether the unit's predefined symbols match the vendor's identity.  A
\* symbol matches when it is defined; __IAR_SYSTEMS_ICC__, a version number
\* the header tests by value, when it is defined and not 0.
Matches(d, e) ==
  CASE d = "SDCC" -> e["SDCC"] # Undef \/ e["__SDCC"] # Undef
    [] d = "Keil" -> e["__CX51__"] # Undef
    [] d = "Raisonance" -> e["__RC51__"] # Undef
    [] d = "IAR" -> e["__IAR_SYSTEMS_ICC__"] # Undef /\ e["__IAR_SYSTEMS_ICC__"] # 0
    [] d = "Tasking" -> e["_CC51"] # Undef
    [] d = "HiTech" -> e["HI_TECH_C"] # Undef
    [] d = "Crossware" -> e["_XC51_VER"] # Undef
    [] d = "Wickenhaeuser" -> e["__UC__"] # Undef

NoMatch(e) == \A d \in Vendors : ~Matches(d, e)

\* The header has been read to its end at least once.
Processed == pc = 0 /\ includes >= 1

\* The lines of each dialect's branch.
BranchLines(d) ==
  CASE d = "SDCC" -> 76..87
    [] d = "Keil" -> 93..104
    [] d = "Raisonance" -> 110..118
    [] d = "IAR" -> 124..150
    [] d = "Tasking" -> 156..168
    [] d = "HiTech" -> 174..182
    [] d = "Crossware" -> 188..196
    [] d = "Wickenhaeuser" -> 202..210
    [] d = "Default" -> 216..225

\* C1: whatever identity symbols are predefined, reading compiler.h selects
\* exactly one dialect, never none and never two, and the default dialect
\* is the one selected exactly when no vendor's identity matches.
C1_ExactlyOneDialect ==
  /\ Cardinality(selected) <= 1
  /\ Processed =>
       /\ Cardinality(selected) = 1
       /\ ("Default" \in selected) <=> NoMatch(env)

\* C1's case: several vendors' symbols at once, and one dialect selected.
C1_Witness ==
  /\ Processed
  /\ Cardinality({d \in Vendors : Matches(d, env)}) >= 3
  /\ Cardinality(selected) = 1

\* C2: with several identity symbols defined the dialect selected is the
\* first that matches in the order SDCC, Keil, Raisonance, IAR, Tasking,
\* Hi-Tech, Crossware, Wickenhaeuser; no later branch is ever entered once
\* an earlier condition is true.
C2_FirstMatchWins ==
  \A i \in 1..Len(VendorOrder) :
    Matches(VendorOrder[i], env) =>
      /\ \A j \in (i + 1)..Len(VendorOrder) : VendorOrder[j] \notin selected
      /\ "Default" \notin selected
      /\ (Processed /\ \A h \in 1..(i - 1) : ~Matches(VendorOrder[h], env))
            => selected = {VendorOrder[i]}

\* C2's case: Raisonance's and two later vendors' symbols, Raisonance selected.
C2_Witness ==
  /\ Processed
  /\ {d \in Vendors : Matches(d, env)} = {"Raisonance", "IAR", "Wickenhaeuser"}
  /\ selected = {"Raisonance"}

\* C3: for an identity that is not recognized the default dialect is
\* selected, the 'unrecognized compiler' diagnostic is emitted (once) and
\* the header is read on to its end, the default's macros defined; the
\* diagnostic is never emitted when a vendor's dialect is selected.
C3_DiagnosticIffDefault ==
  /\ (diags # <<>>) => selected = {"Default"}
  /\ (selected \cap Vendors # {}) => diags = <<>>
  /\ (Processed /\ NoMatch(env)) =>
       /\ selected = {"Default"}
       /\ Len(diags) = 1
       /\ Line(diags[1]).op = "warning"
       /\ \A m \in Interface \ {"ASM", "__asm_begin", "__asm_end"} :
            macros[m] > diags[1]

\* C3's case: __IAR_SYSTEMS_ICC__ defined as 0 and nothing else, the
\* diagnostic emitted, the header read to its end.
C3_Witness ==
  /\ Processed
  /\ env["__IAR_SYSTEMS_ICC__"] = 0
  /\ NoMatch(env)
  /\ diags # <<>>
  /\ macros["SFR32E"] # 0

\* Every macro of the interface that is defined is defined by a line of the
\* one selected dialect's branch; under Tasking SFR16 is the definition that
\* #if _CC51 > 71 chooses.
OneDialectDefines ==
  /\ \A m \in Interface :
       macros[m] # 0 => \E d \in selected : macros[m] \in BranchLines(d)
  /\ Cardinality(selected) <= 1
  /\ (selected = {"Tasking"} /\ macros["SFR16"] # 0) =>
       macros["SFR16"] = IF env["_CC51"] > TaskingSfr16Version THEN 162 ELSE 164

\* While the header is read again its body is skipped.
BodySkipped ==
  (includes >= 2 /\ pc \in (FirstLine + 1)..LastLine) => ~Active(ifs)

\* C4: within one translation unit every macro of the interface that is
\* defined takes its definition from the single selected dialect (the
\* nested _CC51 > 71 choice included), and including compiler.h again
\* changes no definition, the COMPILER_H guard skipping the whole body.
C4_OneDialectPerUnit ==
  [][/\ OneDialectDefines'
     /\ BodySkipped'
     /\ includes >= 2 => /\ macros' = macros
                         /\ selected' = selected
                         /\ diags' = diags]_vars

\* C4's case: the header included twice under Tasking with _CC51 > 71.
C4_Witness ==
  /\ pc = 0
  /\ includes = 2
  /\ selected = {"Tasking"}
  /\ macros["SFR16"] = 162
  /\ macros["SFR16E"] = 166

\* C5: whichever dialect is selected, all twelve macros of the interface
\* (VECT, SBIT, SFR, SFRBIT, SFRX, SFR16, SFR16E, SFR32, SFR32E, ASM,
\* __asm_begin, __asm_end) are defined once compiler.h has been read.
C5_InterfaceComplete ==
  Processed => \A m \in Interface : macros[m] # 0

-----------------------------------------------------------------------------
(* The claims about the expansions.                                         *)

\* The number a one-token argument of the invocation stands for.
ArgInt(k) == call.args[k][1].b[1] + 256 * call.args[k][1].b[2]

\* An address of at most two bytes as a number.
AddrInt(b) == b[1] + 256 * b[2]

\* The tokens of a sequence.
Range(ts) == {ts[i] : i \in 1..Len(ts)}

\* The parameters of the definition in force for the macro invoked.
CallParams == Line(macros[call.macro]).params

\* The vendors (with, for Tasking, the versions) whose SFR16 is supported.
SupportsSFR16(d, e) ==
  \/ d \in {"SDCC", "Keil", "Raisonance", "IAR", "Crossware"}
  \/ d = "Tasking" /\ e["_CC51"] > TaskingSfr16Version

\* C6: for every SFR byte address addr in 0x80..0xFE, SFR16(name, addr)
\* under every vendor dialect that supports SFR16 binds the low byte at addr
\* and the high byte at addr+1; SDCC's packed address ((addr+1)<<8)|addr has
\* addr in its low 8 bits, addr+1 in bits 8..15 and nothing above bit 15.
C6_Sfr16Adjacent ==
  (call.macro = "SFR16" /\ ArgInt(2) <= 254) =>
    \A d \in selected :
      SupportsSFR16(d, env) =>
        /\ BoundBytes(d, 2, Address(expansion)) = <<ArgInt(2), ArgInt(2) + 1>>
        /\ d = "SDCC" =>
             Address(expansion) = <<ArgInt(2), ArgInt(2) + 1, 0, 0>>

\* C6's case: SFR16(REG, 0xCC) under SDCC, packed as 0xCDCC.
C6_Witness ==
  /\ selected = {"SDCC"}
  /\ call.macro = "SFR16"
  /\ ArgInt(2) = 204
  /\ Address(expansion) = <<204, 205, 0, 0>>

\* C7: for every SFR byte address addr in 0x80..0xFC, SFR32(name, addr)
\* under SDCC and under IAR binds the register's four bytes at addr, addr+1,
\* addr+2, addr+3, least significant first, the address in the expansion
\* being the macro's own address argument.
C7_Sfr32Ascending ==
  (call.macro = "SFR32" /\ ArgInt(2) <= 252) =>
    \A d \in selected \cap {"SDCC", "IAR"} :
      BoundBytes(d, 4, Address(expansion)) =
        <<ArgInt(2), ArgInt(2) + 1, ArgInt(2) + 2, ArgInt(2) + 3>>

\* The vendors whose SBIT declares a bit.
BitVendors ==
  {"SDCC", "Keil", "Raisonance", "Tasking", "HiTech", "Crossware",
   "Wickenhaeuser"}

\* The byte and the bit number an SFR bit address stands for.
DecodeBit(n) == [byte |-> n - (n % 8), bit |-> n % 8]

SbitResolves ==
  \A d \in selected \cap BitVendors :
    /\ Address(expansion) # <<>>
    /\ DecodeBit(AddrInt(Address(expansion))) =
         [byte |-> ArgInt(2), bit |-> ArgInt(3)]

ParamNames ==
  {"num", "addr", "name", "bit", "fulladdr", "bit7", "bit6", "bit5", "bit4",
   "bit3", "bit2", "bit1", "bit0", "__VA_ARGS__"}

\* The macros a vendor's dialect does not support.
Unsupported(d, m, e) ==
  \/ m \in {"SFR16E", "SFR32E"} /\ d # "SDCC"
  \/ m = "SFR32" /\ d \notin {"SDCC", "IAR"}
  \/ m = "SFR16" /\ ~SupportsSFR16(d, e)
  \/ m = "SBIT" /\ d = "IAR"
  \/ m = "SFRBIT" /\ d # "IAR"

\* C9: in every dialect an interface macro the dialect does not support
\* expands to nothing, and no invocation of an interface macro is left
\* standing as an undefined macro or expands to text that still holds a
\* parameter name, a name that is not one of its arguments.
C9_UnsupportedInert ==
  call # NoCall =>
    /\ \A d \in selected \cap Vendors :
         Unsupported(d, call.macro, env) => expansion = <<>>
    /\ \A i \in 1..Len(expansion) :
         /\ expansion[i].t \notin Interface
         /\ expansion[i].t \notin ParamNames

\* The default dialect is selected and the macro invoked is one it defines.
DefaultCall ==
  selected = {"Default"} /\ call # NoCall /\ macros[call.macro] # 0

\* A volatile-qualified declaration of the name given.
PlainVolatile ==
  /\ Len(expansion) >= 2
  /\ expansion[1] = Tok("volatile")
  /\ expansion[Len(expansion)] = RegName
  /\ \A i \in 2..(Len(expansion) - 1) :
       expansion[i].t \in {"unsigned", "char", "short", "long", "bool"}

\* No argument passed for a parameter outside keep is in the expansion.
OnlyArgsOf(keep) ==
  \A k \in 1..Len(call.args) :
    CallParams[k] \notin keep => Range(call.args[k]) \cap Range(expansion) = {}

\* C10 as stated: under the default dialect every macro it defines expands
\* to a plain volatile-qualified declaration of the given name, and none of
\* the address, bit or vector arguments appears in any expansion.
C10_AllPlainVolatile ==
  DefaultCall => PlainVolatile /\ OnlyArgsOf({"name"})

\* C10 as amended: under the default dialect SBIT, SFR, SFRX, SFR16, SFR16E,
\* SFR32 and SFR32E expand to a plain volatile-qualified declaration of the
\* given name, SFRBIT to the bare name and VECT to its vector number num; no
\* address, bit or bit-name argument appears in any expansion.
C10_DefaultNoAddress ==
  DefaultCall =>
    /\ call.macro = "VECT" => expansion = call.args[1]
    /\ call.macro = "SFRBIT" => expansion = <<RegName>>
    /\ call.macro \notin {"VECT", "SFRBIT"} => PlainVolatile
    /\ OnlyArgsOf({"name", "num"})

\* C10's case: SFR16(REG, 0xCC) under the default dialect.
C10_Witness ==
  /\ DefaultCall
  /\ call.macro = "SFR16"
  /\ ArgInt(2) = 204
  /\ expansion = <<Tok("volatile"), Tok("unsigned"), Tok("short"), RegName>>

=============================================================================
